---- MODULE Spec2Model ----
(***************************************************************************)
(* PPE compliance evaluation of SafetySnap.                                *)
(*                                                                         *)
(* The model follows src/server/services/ppeAnalysisService.js (the        *)
(* PPEAnalysisService class) and the upload route that calls it            *)
(* (src/client/src/App.js, router.post("/")).                              *)
(*                                                                         *)
(* Confidences are JavaScript numbers in the source; the model keeps them  *)
(* in hundredths (0.5 is 50), which is exact for every comparison the      *)
(* code makes.  A JavaScript Set is kept as a duplicate-free sequence in   *)
(* insertion order, which is the order Array.from gives.                   *)
(***************************************************************************)
EXTENDS Integers, Sequences, FiniteSets, TLC

VARIABLES
    pc,               \* where the caller of the service is
    workEnvironment,  \* the upload route's workEnvironment local
    detections,       \* the detection list handed to analyzeCompliance
    compliance,       \* the report analyzeCompliance returned
    recommendations,  \* the list generateRecommendations returned
    argument,         \* the argument of the getPPERequirements call
    resolved,         \* the value getPPERequirements returned
    service,          \* the shared PPEAnalysisService instance's fields
    calls,            \* the analyzeImage calls in flight on it, with their locals
    uploadPath,       \* the files in the uploads folder, named by order of creation
    created,          \* how many files multer has stored so far
    uploadRequests,   \* the POST /api/upload requests: position, stored file, status sent
    analyzeRequest    \* the POST /api/upload/analyze request: position, file named, status sent

\* One caller at a time.
callerVars == <<pc, workEnvironment, detections, compliance, recommendations, argument, resolved>>

\* Several analyzeImage calls on the one instance.
concurrentVars == <<service, calls>>

\* The uploads folder and the requests that work on it.
uploadVars == <<uploadPath, created, uploadRequests, analyzeRequest>>

\* What the requests on the uploads folder leave alone.
analysisVars == <<callerVars, concurrentVars>>

vars == <<callerVars, concurrentVars, uploadVars>>

(***************************************************************************)
(* Bounds of the model.                                                    *)
(***************************************************************************)
\* Longest detection list enumerated over the whole detection alphabet.
MaxDetections == 2

\* Number of requests that can be in flight together.
MaxRequests == 2

\* Number of files cleanupOldFiles keeps.  The route keeps 100; the model
\* keeps this many, so that a folder can outgrow the limit within few uploads.
KeepLimit == 2

(***************************************************************************)
(* JavaScript values.                                                      *)
(***************************************************************************)
\* The JavaScript value undefined (a missing property, an absent argument).
Undefined == "<undefined>"

\* Property names every object literal inherits from Object.prototype: a
\* lookup obj[key] with one of these keys gives a truthy value although the
\* literal has no such entry.
ObjectPrototypeKeys ==
    {"constructor", "toString", "toLocaleString", "valueOf", "hasOwnProperty",
     "isPrototypeOf", "propertyIsEnumerable", "__proto__"}

\* Math.round of the quotient num / den (den > 0, num >= 0): halves go up.
MathRound(num, den) == (2 * num + den) \div (2 * den)

(***************************************************************************)
(* constructor: the catalog and the required categories.                   *)
(***************************************************************************)
ppeItems ==
    [class \in {"person", "helmet", "hard hat", "safety helmet", "safety vest",
                "reflective vest", "hi-vis vest", "safety glasses", "goggles",
                "protective eyewear", "gloves", "safety gloves", "work gloves",
                "boots", "safety boots", "work boots"} |->
        [required |-> TRUE,
         category |->
            CASE class = "person" -> "person"
              [] class \in {"helmet", "hard hat", "safety helmet"} -> "head_protection"
              [] class \in {"safety vest", "reflective vest", "hi-vis vest"} -> "visibility"
              [] class \in {"safety glasses", "goggles", "protective eyewear"} -> "eye_protection"
              [] class \in {"gloves", "safety gloves", "work gloves"} -> "hand_protection"
              [] class \in {"boots", "safety boots", "work boots"} -> "foot_protection"]]

requiredCategories ==
    <<"head_protection", "visibility", "eye_protection", "hand_protection",
      "foot_protection">>

\* The threshold of the test detection.confidence > 0.5, in hundredths.
ConfidenceThreshold == 50

(***************************************************************************)
(* Helpers on sequences.                                                   *)
(***************************************************************************)
Range(s) == {s[i] : i \in 1..Len(s)}

\* Set.prototype.add on a Set kept in insertion order.
SetAdd(s, x) == IF x \in Range(s) THEN s ELSE Append(s, x)

(***************************************************************************)
(* analyzeCompliance                                                       *)
(***************************************************************************)
\* const item = this.ppeItems[detection.class], as a truth value.
ItemFound(class) == class \in DOMAIN ppeItems \/ class \in ObjectPrototypeKeys

\* item.category
ItemCategory(class) ==
    IF class \in DOMAIN ppeItems THEN ppeItems[class].category ELSE Undefined

\* detection.class: undefined when the detection has no such property.
ClassOf(detection) ==
    IF "class" \in DOMAIN detection THEN detection.class ELSE Undefined

\* detection.confidence > 0.5: a comparison with undefined is false.
ConfidenceAbove(detection) ==
    "confidence" \in DOMAIN detection /\ detection.confidence > ConfidenceThreshold

\* Mutation: any catalog item is taken as evidence of a person.
IsPersonOrEquipment(detection) == ClassOf(detection) \in DOMAIN ppeItems

\* detection.class === 'person'
IsPerson(detection) == ClassOf(detection) = "person"

\* Mutation: the comparison admits the threshold itself (>= for >).
AdmittedAtThreshold(detection) ==
    /\ ItemFound(ClassOf(detection))
    /\ "confidence" \in DOMAIN detection
    /\ detection.confidence >= ConfidenceThreshold

\* item && detection.confidence > 0.5
Admitted(detection) ==
    ItemFound(ClassOf(detection)) /\ ConfidenceAbove(detection)

\* Mutation: the item is labelled with its category (item.category for
\* detection.class).
DetectedItemByCategory(detection) ==
    [item |-> ItemCategory(detection.class),
     category |-> ItemCategory(detection.class),
     confidence |-> detection.confidence,
     bbox |-> detection.bbox]

\* The detectedItems entry pushed for an admitted detection.
DetectedItem(detection) ==
    [item |-> detection.class,
     category |-> ItemCategory(detection.class),
     confidence |-> detection.confidence,
     bbox |-> detection.bbox]

\* One turn of detections.forEach on the accumulated locals.
ProcessDetection(acc, detection) ==
    [personDetected |-> acc.personDetected \/ IsPerson(detection),
     detectedCategories |->
        IF Admitted(detection)
        THEN SetAdd(acc.detectedCategories, ItemCategory(ClassOf(detection)))
        ELSE acc.detectedCategories,
     detectedItems |->
        IF Admitted(detection)
        THEN Append(acc.detectedItems, DetectedItem(detection))
        ELSE acc.detectedItems]

RECURSIVE ProcessDetections(_, _)
ProcessDetections(list, n) ==
    IF n = 0
    THEN [personDetected |-> FALSE, detectedCategories |-> <<>>, detectedItems |-> <<>>]
    ELSE ProcessDetection(ProcessDetections(list, n - 1), list[n])

\* required.filter(category => !detectedCategories.has(category))
MissingCategoriesOf(required, detectedCategories) ==
    SelectSeq(required, LAMBDA category : category \notin Range(detectedCategories))

\* Mutation: the missing categories are collected back to front.
MissingCategoriesReversed(detectedCategories) ==
    LET kept == SelectSeq(requiredCategories,
                          LAMBDA category : category \notin Range(detectedCategories))
    IN  [i \in 1..Len(kept) |-> kept[Len(kept) + 1 - i]]

\* this.requiredCategories.filter(category => !detectedCategories.has(category))
MissingCategories(detectedCategories) ==
    MissingCategoriesOf(requiredCategories, detectedCategories)

\* Math.round of (detectedCategories.size / required.length) * 100, or 0.
ComplianceScoreOf(required, size) ==
    IF Len(required) > 0
    THEN MathRound(size * 100, Len(required))
    ELSE 0

\* The score against this.requiredCategories.
ComplianceScore(size) == ComplianceScoreOf(requiredCategories, size)

\* Mutation: the person test is left out of the verdict.
IsCompliantWithoutPerson(missingCategories, personDetected) ==
    Len(missingCategories) = 0

\* missingCategories.length === 0 && personDetected
IsCompliant(missingCategories, personDetected) ==
    Len(missingCategories) = 0 /\ personDetected

AnalyzeCompliance(list) ==
    LET acc == ProcessDetections(list, Len(list))
        missingCategories == MissingCategories(acc.detectedCategories)
    IN  [personDetected |-> acc.personDetected,
         complianceScore |-> ComplianceScore(Len(acc.detectedCategories)),
         isCompliant |-> IsCompliant(missingCategories, acc.personDetected),
         detectedCategories |-> acc.detectedCategories,
         missingCategories |-> missingCategories,
         detectedItems |-> acc.detectedItems,
         totalRequired |-> Len(requiredCategories),
         totalDetected |-> Len(acc.detectedCategories)]

\* analyzeCompliance on an instance whose requiredCategories field holds
\* `required` (the catalog is read through ppeItems).
AnalyzeComplianceOn(instance, list) ==
    LET acc == ProcessDetections(list, Len(list))
        required == instance.requiredCategories
        missingCategories == MissingCategoriesOf(required, acc.detectedCategories)
    IN  [personDetected |-> acc.personDetected,
         complianceScore |-> ComplianceScoreOf(required, Len(acc.detectedCategories)),
         isCompliant |-> IsCompliant(missingCategories, acc.personDetected),
         detectedCategories |-> acc.detectedCategories,
         missingCategories |-> missingCategories,
         detectedItems |-> acc.detectedItems,
         totalRequired |-> Len(required),
         totalDetected |-> Len(acc.detectedCategories)]

(***************************************************************************)
(* generateRecommendations                                                 *)
(***************************************************************************)
categoryMessages ==
    [category \in Range(requiredCategories) |->
        CASE category = "head_protection" -> "Wear a safety helmet or hard hat"
          [] category = "visibility" -> "Wear a high-visibility safety vest"
          [] category = "eye_protection" -> "Wear safety glasses or protective eyewear"
          [] category = "hand_protection" -> "Wear safety gloves"
          [] category = "foot_protection" -> "Wear safety boots or work boots"]

\* category.replace('_', ' '): the first underscore becomes a blank.
ReplaceUnderscore(category) ==
    CASE category = "head_protection" -> "head protection"
      [] category = "eye_protection" -> "eye protection"
      [] category = "hand_protection" -> "hand protection"
      [] category = "foot_protection" -> "foot protection"
      [] OTHER -> category

NoPersonRecommendation ==
    [type |-> "error",
     message |-> "No person detected in the image. Please ensure the image contains a person for PPE analysis.",
     priority |-> "high"]

MissingRecommendation(category) ==
    [type |-> "warning",
     message |-> "Missing " \o ReplaceUnderscore(category) \o ": " \o categoryMessages[category],
     priority |-> "high"]

SuccessRecommendation ==
    [type |-> "success",
     message |-> "Great! All required PPE items are detected and properly worn.",
     priority |-> "low"]

GeneralRecommendation ==
    [type |-> "info",
     message |-> "Always ensure PPE is properly fitted and in good condition before starting work.",
     priority |-> "medium"]

\* Mutation: the general reminder is pushed first instead of last.
GenerateRecommendationsInfoFirst(report) ==
    LET first == IF ~report.personDetected THEN <<NoPersonRecommendation>> ELSE <<>>
        warnings ==
            [i \in 1..Len(report.missingCategories) |->
                MissingRecommendation(report.missingCategories[i])]
        success == IF report.isCompliant THEN <<SuccessRecommendation>> ELSE <<>>
    IN  <<GeneralRecommendation>> \o first \o warnings \o success

\* Mutation: the success message is decided by the score, not by isCompliant.
GenerateRecommendationsSuccessOnScore(report) ==
    LET first == IF ~report.personDetected THEN <<NoPersonRecommendation>> ELSE <<>>
        warnings ==
            [i \in 1..Len(report.missingCategories) |->
                MissingRecommendation(report.missingCategories[i])]
        success == IF report.complianceScore >= 100 THEN <<SuccessRecommendation>> ELSE <<>>
    IN  first \o warnings \o success \o <<GeneralRecommendation>>

GenerateRecommendations(report) ==
    LET first == IF ~report.personDetected THEN <<NoPersonRecommendation>> ELSE <<>>
        warnings ==
            [i \in 1..Len(report.missingCategories) |->
                MissingRecommendation(report.missingCategories[i])]
        success == IF report.isCompliant THEN <<SuccessRecommendation>> ELSE <<>>
    IN  first \o warnings \o success \o <<GeneralRecommendation>>

(***************************************************************************)
(* getPPERequirements                                                      *)
(***************************************************************************)
requirements ==
    [name \in {"construction", "manufacturing", "laboratory", "healthcare", "general"} |->
        CASE name = "construction" ->
                <<"head_protection", "visibility", "eye_protection", "hand_protection",
                  "foot_protection">>
          [] name = "manufacturing" ->
                <<"head_protection", "eye_protection", "hand_protection", "foot_protection">>
          [] name = "laboratory" -> <<"eye_protection", "hand_protection">>
          [] name = "healthcare" -> <<"hand_protection", "eye_protection">>
          [] name = "general" ->
                <<"head_protection", "visibility", "eye_protection", "hand_protection",
                  "foot_protection">>]

\* A returned array of categories.
ArrayValue(items) == [type |-> "array", items |-> items]

\* What requirements[key] gives for a key the literal does not define itself
\* but Object.prototype does: a built-in function (an object for __proto__),
\* which is truthy and holds no categories.
InheritedValue(key) ==
    [type |-> IF key = "__proto__" THEN "object" ELSE "function", items |-> <<>>]

\* requirements[workEnvironment] || requirements.general, with the default
\* parameter workEnvironment = 'construction' for an absent argument.
GetPPERequirements(name) ==
    LET environment == IF name = Undefined THEN "construction" ELSE name
    IN  IF environment \in DOMAIN requirements
        THEN ArrayValue(requirements[environment])
        ELSE IF environment \in ObjectPrototypeKeys
             THEN InheritedValue(environment)
             ELSE ArrayValue(requirements["general"])

(***************************************************************************)
(* simulatePPEDetection: the stub detector.                                *)
(***************************************************************************)
mockDetections ==
    << [class |-> "person", confidence |-> 95, bbox |-> <<100, 50, 200, 400>>],
       [class |-> "helmet", confidence |-> 88, bbox |-> <<120, 60, 80, 60>>],
       [class |-> "safety vest", confidence |-> 92, bbox |-> <<110, 120, 180, 120>>],
       [class |-> "gloves", confidence |-> 75, bbox |-> <<80, 350, 60, 40>>],
       [class |-> "safety glasses", confidence |-> 82, bbox |-> <<140, 100, 60, 20>>],
       [class |-> "boots", confidence |-> 78, bbox |-> <<130, 420, 80, 60>>] >>

Max(a, b) == IF a >= b THEN a ELSE b
Min(a, b) == IF a <= b THEN a ELSE b

\* Math.max(0.3, Math.min(0.99, confidence + (Math.random() - 0.5) * 0.2)),
\* jitter being the random term in hundredths.
Jittered(confidence, jitter) == Max(30, Min(99, confidence + jitter))

\* The random terms the model draws, in hundredths: the low end of the range
\* [-0.1, 0.1), its middle, and a value short of its open high end.
Jitters == {-10, 0, 9}

\* The lists simulatePPEDetection can return.
SimulatedLists ==
    { [i \in 1..Len(mockDetections) |->
          [class |-> mockDetections[i].class,
           confidence |-> Jittered(mockDetections[i].confidence, j[i]),
           bbox |-> mockDetections[i].bbox]] :
      j \in [1..Len(mockDetections) -> Jitters] }

(***************************************************************************)
(* The detection lists a detector behind the same interface can supply.    *)
(***************************************************************************)
\* Labels: catalog labels of every category (two of one category), a label
\* the catalog does not know, and one that names a built-in property.
DetectorLabels ==
    {"person", "helmet", "hard hat", "safety vest", "safety glasses", "gloves",
     "boots", "hammer", "constructor"}

\* Confidences: at the threshold, just above it, and high.
Confidences == {ConfidenceThreshold, ConfidenceThreshold + 1, 95}

\* Bounding boxes (x, y, width, height) of the enumerated detections.
Boxes == {<<100, 50, 200, 400>>}

Detections == [class : DetectorLabels, confidence : Confidences, bbox : Boxes]

ArbitraryLists == UNION { [1..n -> Detections] : n \in 0..MaxDetections }

\* The stub's scene with any of its objects absent.
SceneLists ==
    { SelectSeq(mockDetections, LAMBDA d : d \in kept) :
      kept \in SUBSET Range(mockDetections) }

\* The same scenes with the person seen at the threshold only.
FaintPersonLists ==
    { [i \in 1..Len(list) |->
          IF list[i].class = "person"
          THEN [list[i] EXCEPT !.confidence = ConfidenceThreshold]
          ELSE list[i]] :
      list \in {scene \in SceneLists : \E i \in 1..Len(scene) : scene[i].class = "person"} }

DetectionLists == ArbitraryLists \cup SceneLists \cup FaintPersonLists \cup SimulatedLists

(***************************************************************************)
(* The upload route and the calls on the service.                          *)
(***************************************************************************)
\* analysisSchema: workEnvironment is optional and one of these.
ValidEnvironments == {"construction", "manufacturing", "laboratory", "healthcare", "general"}

\* The workEnvironment values a request body can carry.
BodyEnvironments == ValidEnvironments \cup {Undefined, "warehouse"}

\* The names getPPERequirements is called with.
ProfileNames == ValidEnvironments \cup {Undefined, "warehouse", "constructor", "toString"}

NoValue == <<>>

\* The analyzeImage calls, by number.
Requests == 1..MaxRequests

\* new PPEAnalysisService(): the fields the constructor sets.
NewService == [ppeItems |-> ppeItems, requiredCategories |-> requiredCategories]

\* A call that has not been made yet.
IdleCall == [pc |-> "idle", detections |-> <<>>, compliance |-> NoValue, recommendations |-> <<>>]

\* The POST /api/upload requests, numbered in order of arrival: enough of
\* them to store more files than cleanupOldFiles keeps.
UploadRequests == 1..(KeepLimit + 1)

\* req.file of a request that carried no image.
NoFile == 0

\* A request that has not arrived yet.
IdleRequest == [pc |-> "idle", file |-> NoFile, status |-> 0]

Init ==
    /\ pc = "idle"
    /\ workEnvironment = Undefined
    /\ detections = <<>>
    /\ compliance = NoValue
    /\ recommendations = <<>>
    /\ argument = Undefined
    /\ resolved = NoValue
    /\ service = NewService
    /\ calls = [r \in Requests |-> IdleCall]
    /\ uploadPath = {}
    /\ created = 0
    /\ uploadRequests = [r \in UploadRequests |-> IdleRequest]
    /\ analyzeRequest = IdleRequest

\* router.post("/") up to the detector's answer: the body is validated, the
\* route's workEnvironment local is set, and analyzeImage obtains the
\* detection list.
PostUpload ==
    /\ pc = "idle"
    /\ \E bodyEnvironment \in BodyEnvironments, detected \in DetectionLists :
       IF bodyEnvironment \in ValidEnvironments \cup {Undefined}
       THEN /\ pc' = "detected"
            /\ workEnvironment' =
                  (IF bodyEnvironment = Undefined THEN "construction" ELSE bodyEnvironment)
            /\ detections' = detected
       ELSE /\ pc' = "rejected"
            /\ UNCHANGED <<workEnvironment, detections>>
    /\ UNCHANGED <<compliance, recommendations, argument, resolved>>
    /\ UNCHANGED <<concurrentVars, uploadVars>>

\* const complianceAnalysis = this.analyzeCompliance(detectionResults)
Analyze ==
    /\ pc = "detected"
    /\ compliance' = AnalyzeCompliance(detections)
    /\ pc' = "analyzed"
    /\ UNCHANGED <<workEnvironment, detections, recommendations, argument, resolved>>
    /\ UNCHANGED <<concurrentVars, uploadVars>>

\* const recommendations = this.generateRecommendations(complianceAnalysis)
Recommend ==
    /\ pc = "analyzed"
    /\ recommendations' = GenerateRecommendations(compliance)
    /\ pc' = "reported"
    /\ UNCHANGED <<workEnvironment, detections, compliance, argument, resolved>>
    /\ UNCHANGED <<concurrentVars, uploadVars>>

\* A call of getPPERequirements.
Resolve ==
    /\ pc = "idle"
    /\ \E name \in ProfileNames :
          /\ argument' = name
          /\ resolved' = GetPPERequirements(name)
    /\ pc' = "resolved"
    /\ UNCHANGED <<workEnvironment, detections, compliance, recommendations>>
    /\ UNCHANGED <<concurrentVars, uploadVars>>

\* The response is sent or the call returns: the locals are gone.
Return ==
    /\ pc \in {"reported", "rejected", "resolved"}
    /\ pc' = "idle"
    /\ workEnvironment' = Undefined
    /\ detections' = <<>>
    /\ compliance' = NoValue
    /\ recommendations' = <<>>
    /\ argument' = Undefined
    /\ resolved' = NoValue
    /\ UNCHANGED <<concurrentVars, uploadVars>>

Next ==
    \/ PostUpload
    \/ Analyze
    \/ Recommend
    \/ Resolve
    \/ Return

Spec == Init /\ [][Next]_vars

(***************************************************************************)
(* Detection lists that hold a malformed detection: analyzeCompliance      *)
(* called with a list in which a detection lacks its label or confidence   *)
(* or has a confidence outside [0, 1].                                     *)
(***************************************************************************)
MalformedDetections ==
    { [confidence |-> 95, bbox |-> <<100, 50, 200, 400>>],
      [class |-> "helmet", bbox |-> <<100, 50, 200, 400>>],
      [class |-> "helmet", confidence |-> 150, bbox |-> <<100, 50, 200, 400>>],
      [class |-> "helmet", confidence |-> -10, bbox |-> <<100, 50, 200, 400>>] }

\* The well-formed detections that accompany them.
CompanionDetections ==
    { [class |-> "person", confidence |-> 95, bbox |-> <<100, 50, 200, 400>>],
      [class |-> "gloves", confidence |-> 95, bbox |-> <<100, 50, 200, 400>>],
      [class |-> "boots", confidence |-> ConfidenceThreshold, bbox |-> <<100, 50, 200, 400>>] }

MalformedLists ==
    { list \in UNION { [1..n -> MalformedDetections \cup CompanionDetections] :
                         n \in 1..MaxDetections } :
        \E i \in 1..Len(list) : list[i] \in MalformedDetections }

\* router.post("/") as PostUpload, the detector answering with such a list.
PostUploadMalformed ==
    /\ pc = "idle"
    /\ \E detected \in MalformedLists :
          /\ pc' = "detected"
          /\ workEnvironment' = "construction"
          /\ detections' = detected
    /\ UNCHANGED <<compliance, recommendations, argument, resolved>>
    /\ UNCHANGED <<concurrentVars, uploadVars>>

NextMalformed ==
    \/ PostUploadMalformed
    \/ Analyze
    \/ Recommend
    \/ Return

SpecMalformed == Init /\ [][NextMalformed]_vars

(***************************************************************************)
(* Several analyzeImage calls in flight on the one shared instance.  A     *)
(* call gives up control at its two awaits (sharp's metadata, the          *)
(* detector) and nowhere else: what lies between two awaits is one step.   *)
(***************************************************************************)
\* The scenes the detector reports to the concurrent calls: the stub's scene
\* whole or with one object absent, and the empty scene.
ConcurrentLists ==
    {<<>>} \cup { scene \in SceneLists : Len(scene) >= Len(mockDetections) - 1 }

\* What an analysis leaves of the instance: analyzeImage, analyzeCompliance
\* and generateRecommendations assign no field of this.
\* Mutation: the filtered list is stored back into this.requiredCategories.
ServiceNarrowed(instance, report) ==
    [instance EXCEPT !.requiredCategories = report.missingCategories]

ServiceAfterAnalysis(instance, report) == instance

\* analyzeImage up to await sharp(imagePath).metadata(): the file is looked
\* up; a missing file ends the call with success: false.
BeginAnalysis(r) ==
    /\ calls[r].pc = "idle"
    /\ \E exists \in BOOLEAN :
          calls' = [calls EXCEPT ![r].pc = IF exists THEN "metadata" ELSE "failed"]
    /\ UNCHANGED <<service, callerVars, uploadVars>>

\* The metadata arrive (or sharp rejects, which ends the call with
\* success: false) and simulatePPEDetection is called and awaited.
AwaitDetection(r) ==
    /\ calls[r].pc = "metadata"
    /\ \/ calls' = [calls EXCEPT ![r].pc = "failed"]
       \/ \E detected \in ConcurrentLists :
             calls' = [calls EXCEPT ![r].pc = "detection", ![r].detections = detected]
    /\ UNCHANGED <<service, callerVars, uploadVars>>

\* The detections arrive: analyzeCompliance, generateRecommendations and the
\* return of the result, without a further await.
FinishAnalysis(r) ==
    /\ calls[r].pc = "detection"
    /\ LET report == AnalyzeComplianceOn(service, calls[r].detections)
       IN  /\ calls' = [calls EXCEPT ![r].pc = "done",
                                     ![r].compliance = report,
                                     ![r].recommendations = GenerateRecommendations(report)]
           /\ service' = ServiceAfterAnalysis(service, report)
    /\ UNCHANGED <<callerVars, uploadVars>>

NextConcurrent ==
    \E r \in Requests :
        \/ BeginAnalysis(r)
        \/ AwaitDetection(r)
        \/ FinishAnalysis(r)

SpecConcurrent == Init /\ [][NextConcurrent]_vars

(***************************************************************************)
(* The uploads folder and the routes that work on it.  A file is named by  *)
(* its place in the order of creation, which is the order of birthtime.    *)
(* A handler gives up control while analyzeImage awaits sharp's metadata;  *)
(* its other awaits (an async function without I/O) do not let another     *)
(* request in.                                                             *)
(***************************************************************************)
\* The files of a folder created after a given file.
NewerFiles(dir, f) == { g \in dir : g > f }

\* cleanupOldFiles: sorted by birthtime, newest first, the files after the
\* first KeepLimit are deleted when the folder holds more than KeepLimit.
CleanupOldFiles(dir) ==
    IF Cardinality(dir) > KeepLimit
    THEN { f \in dir : Cardinality(NewerFiles(dir, f)) < KeepLimit }
    ELSE dir

\* A response as the model records it.
Responded(f, code) == [pc |-> "responded", file |-> f, status |-> code]

\* POST /api/upload arrives: multer stores the image, if the request has one,
\* and the handler runs up to analyzeImage's await of the metadata.
\*   no file                -> 400, nothing stored
\*   body fails validation  -> 400, returned before the catch block
\*   otherwise              -> analyzeImage finds the file and awaits sharp
UploadArrives(r) ==
    /\ uploadRequests[r].pc = "idle"
    /\ r > 1 => uploadRequests[r - 1].pc # "idle"
    /\ \/ /\ uploadRequests' = [uploadRequests EXCEPT ![r] = Responded(NoFile, 400)]
          /\ UNCHANGED <<uploadPath, created>>
       \/ /\ created' = created + 1
          /\ uploadPath' = uploadPath \cup {created + 1}
          /\ \E valid \in BOOLEAN :
                uploadRequests' =
                    [uploadRequests EXCEPT ![r] =
                        IF valid
                        THEN [pc |-> "metadata", file |-> created + 1, status |-> 0]
                        ELSE Responded(created + 1, 400)]
    /\ UNCHANGED <<analyzeRequest, analysisVars>>

\* The await of the metadata ends and the handler runs to its response.
\*   file gone (sharp rejects or statSync throws) or unreadable
\*       -> analyzeImage returns success: false -> 500 "PPE analysis failed",
\*          returned before the catch block
\*   analysis succeeds -> cleanupOldFiles, then 200 with the file's path
\*   an exception inside try -> the catch block unlinks the request's file
\*          if it exists -> 500
UploadCompletes(r) ==
    /\ uploadRequests[r].pc = "metadata"
    /\ LET f == uploadRequests[r].file
       IN  \/ /\ uploadRequests' = [uploadRequests EXCEPT ![r] = Responded(f, 500)]
              /\ UNCHANGED uploadPath
           \/ /\ f \in uploadPath
              /\ uploadPath' = CleanupOldFiles(uploadPath)
              /\ uploadRequests' = [uploadRequests EXCEPT ![r] = Responded(f, 200)]
           \/ /\ f \in uploadPath
              /\ uploadPath' = CleanupOldFiles(uploadPath) \ {f}
              /\ uploadRequests' = [uploadRequests EXCEPT ![r] = Responded(f, 500)]
    /\ UNCHANGED <<created, analyzeRequest, analysisVars>>

\* DELETE /api/upload/:filename: 404 for a file that is not there, else unlink.
DeleteFile(f) ==
    /\ uploadPath' = IF f \in uploadPath THEN uploadPath \ {f} ELSE uploadPath
    /\ UNCHANGED <<created, uploadRequests, analyzeRequest, analysisVars>>

\* POST /api/upload/analyze arrives: 400 without a filename, 404 for a file
\* that is not there, else analyzeImage awaits the metadata.
AnalyzeArrives ==
    /\ analyzeRequest.pc \in {"idle", "responded"}
    /\ \E f \in 0..created :
          analyzeRequest' =
              IF f = NoFile THEN Responded(f, 400)
              ELSE IF f \notin uploadPath THEN Responded(f, 404)
              ELSE [pc |-> "metadata", file |-> f, status |-> 0]
    /\ UNCHANGED <<uploadPath, created, uploadRequests, analysisVars>>

\* Its await ends: 200 with the analysis, or 500 when the analysis failed.
\* The route neither deletes nor cleans up.
AnalyzeCompletes ==
    /\ analyzeRequest.pc = "metadata"
    /\ \/ analyzeRequest' = Responded(analyzeRequest.file, 500)
       \/ /\ analyzeRequest.file \in uploadPath
          /\ analyzeRequest' = Responded(analyzeRequest.file, 200)
    /\ UNCHANGED <<uploadPath, created, uploadRequests, analysisVars>>

NextUpload ==
    \/ \E r \in UploadRequests : UploadArrives(r)
    \/ \E r \in UploadRequests : UploadCompletes(r)
    \/ \E f \in 1..created : DeleteFile(f)
    \/ AnalyzeArrives
    \/ AnalyzeCompletes

SpecUpload == Init /\ [][NextUpload]_vars

(***************************************************************************)
(* Vocabulary of the properties.                                           *)
(***************************************************************************)
\* analyzeCompliance has returned its report.
Analysed == pc \in {"analyzed", "reported"}

\* The five protection categories.
ProtectionCategories == Range(requiredCategories)

\* The detection has a catalog entry of its own.
InCatalog(d) == d.class \in DOMAIN ppeItems

\* The catalog categories of the detections of a list that lie strictly above
\* the threshold, read from the input alone.
CategoriesAbove(list) ==
    { ppeItems[list[i].class].category :
        i \in { k \in 1..Len(list) :
                  InCatalog(list[k]) /\ list[k].confidence > ConfidenceThreshold } }

\* Some detection of the list is a person.
HasPerson(list) == \E i \in 1..Len(list) : list[i].class = "person"

\* Every detection is a catalog item above the threshold.
AllAbove(list) ==
    \A i \in 1..Len(list) : InCatalog(list[i]) /\ list[i].confidence > ConfidenceThreshold

\* The types of a recommendation list, in order.
Types(list) == [i \in 1..Len(list) |-> list[i].type]

\* The profile table: the required categories of each defined profile.
ProfileTable(name) ==
    CASE name = "construction" ->
            <<"head_protection", "visibility", "eye_protection", "hand_protection",
              "foot_protection">>
      [] name = "manufacturing" ->
            <<"head_protection", "eye_protection", "hand_protection", "foot_protection">>
      [] name = "laboratory" -> <<"eye_protection", "hand_protection">>
      [] name = "healthcare" -> <<"hand_protection", "eye_protection">>
      [] OTHER ->
            <<"head_protection", "visibility", "eye_protection", "hand_protection",
              "foot_protection">>

(***************************************************************************)
(* C1: for every detection list, the complianceScore analyzeCompliance     *)
(* returns is an integer between 0 and 100.                                *)
(***************************************************************************)
C1_ScoreInRange ==
    Analysed => compliance.complianceScore \in 0..100

(***************************************************************************)
(* C2: in every report, isCompliant is true exactly when personDetected is *)
(* true and missingCategories is empty.                                    *)
(***************************************************************************)
C2_CompliantIffPersonAndNothingMissing ==
    Analysed =>
        (compliance.isCompliant <=>
            (compliance.personDetected /\ compliance.missingCategories = <<>>))

\* Both sides are exercised: a compliant report exists.
C2_Witness ==
    /\ Analysed
    /\ compliance.isCompliant
    /\ compliance.personDetected
    /\ compliance.missingCategories = <<>>

(***************************************************************************)
(* C3: the evaluation is done against the required categories of the       *)
(* profile the request selected: a category that profile does not require  *)
(* is never reported missing, and under the laboratory profile a person    *)
(* with eye and hand protection only scores 100, misses nothing and is     *)
(* compliant.                                                              *)
(***************************************************************************)
C3_SelectedProfileDecides ==
    Analysed =>
        /\ Range(compliance.missingCategories) \subseteq Range(ProfileTable(workEnvironment))
        /\ ( /\ workEnvironment = "laboratory"
             /\ CategoriesAbove(detections) = {"person", "eye_protection", "hand_protection"} )
           =>
           ( /\ compliance.complianceScore = 100
             /\ compliance.missingCategories = <<>>
             /\ compliance.isCompliant )

(***************************************************************************)
(* C4: the score is round(100 * n / |requiredCategories|), n being the     *)
(* number of distinct required categories detected above the threshold,    *)
(* and 0 when requiredCategories is empty.                                 *)
(***************************************************************************)
C4_ScoreFormula ==
    Analysed =>
        LET n == Cardinality(CategoriesAbove(detections) \cap Range(requiredCategories))
        IN  compliance.complianceScore =
               (IF Len(requiredCategories) = 0
                THEN 0
                ELSE MathRound(100 * n, Len(requiredCategories)))

(***************************************************************************)
(* C5: under the construction profile, a person and one item of each of    *)
(* the five required categories, all above the threshold, give a report    *)
(* with the 5 categories detected, score 100 and compliant, and the        *)
(* recommendations are exactly one success followed by one info.           *)
(***************************************************************************)
C5_FullSceneScores100 ==
    ( /\ pc = "reported"
      /\ workEnvironment = "construction"
      /\ Len(detections) = 6
      /\ AllAbove(detections)
      /\ CategoriesAbove(detections) = ProtectionCategories \cup {"person"} )
    =>
    ( /\ ProtectionCategories \subseteq Range(compliance.detectedCategories)
      /\ compliance.complianceScore = 100
      /\ compliance.isCompliant
      /\ Types(recommendations) = <<"success", "info">> )

(***************************************************************************)
(* C6: under the construction profile, a person and items of exactly four  *)
(* of the five categories above the threshold, with no detection of the    *)
(* fifth, give missingCategories = [the fifth], score 80, not compliant,   *)
(* and the recommendations are one warning naming it and the closing info. *)
(***************************************************************************)
C6_OneMissingScores80 ==
    \A absent \in ProtectionCategories :
        ( /\ pc = "reported"
          /\ workEnvironment = "construction"
          /\ AllAbove(detections)
          /\ CategoriesAbove(detections) = (ProtectionCategories \ {absent}) \cup {"person"} )
        =>
        ( /\ compliance.missingCategories = <<absent>>
          /\ compliance.complianceScore = 80
          /\ ~compliance.isCompliant
          /\ Types(recommendations) = <<"warning", "info">>
          /\ recommendations[1].message =
                "Missing " \o ReplaceUnderscore(absent) \o ": " \o categoryMessages[absent] )

(***************************************************************************)
(* C7: whenever the detection list holds no person, the report has         *)
(* personDetected false and is not compliant, whatever equipment is        *)
(* detected, and the first recommendation is the error/high no-person      *)
(* message.                                                                *)
(***************************************************************************)
C7_NoPersonNeverCompliant ==
    (pc = "reported" /\ ~HasPerson(detections)) =>
        /\ ~compliance.personDetected
        /\ ~compliance.isCompliant
        /\ recommendations[1].type = "error"
        /\ recommendations[1].priority = "high"
        /\ recommendations[1].message =
              "No person detected in the image. Please ensure the image contains a person for PPE analysis."

\* No person in the list although every required category is detected.
C7_Witness ==
    /\ pc = "reported"
    /\ ~HasPerson(detections)
    /\ ProtectionCategories \subseteq CategoriesAbove(detections)
    /\ compliance.missingCategories = <<>>
    /\ ~compliance.isCompliant

(***************************************************************************)
(* C8: a detection whose confidence equals the threshold is not among the  *)
(* detected items and contributes no category; a detection with a catalog  *)
(* label and a confidence strictly above the threshold is among them.      *)
(***************************************************************************)
C8_ThresholdBoundary ==
    Analysed =>
        /\ \A k \in 1..Len(compliance.detectedItems) :
              compliance.detectedItems[k].confidence # ConfidenceThreshold
        /\ \A c \in Range(compliance.detectedCategories) :
              \E i \in 1..Len(detections) :
                  /\ detections[i].confidence # ConfidenceThreshold
                  /\ ItemCategory(detections[i].class) = c
        /\ \A i \in 1..Len(detections) :
              (InCatalog(detections[i]) /\ detections[i].confidence > ConfidenceThreshold) =>
                  /\ \E k \in 1..Len(compliance.detectedItems) :
                        /\ compliance.detectedItems[k].item = detections[i].class
                        /\ compliance.detectedItems[k].confidence = detections[i].confidence
                  /\ ppeItems[detections[i].class].category
                        \in Range(compliance.detectedCategories)

\* One catalog detection exactly at the threshold, dropped with its category,
\* next to one just above it, kept.
C8_Witness ==
    /\ Analysed
    /\ \E i, j \in 1..Len(detections) :
          /\ InCatalog(detections[i]) /\ InCatalog(detections[j])
          /\ detections[i].confidence = ConfidenceThreshold
          /\ detections[j].confidence = ConfidenceThreshold + 1
          /\ ppeItems[detections[i].class].category
                \notin Range(compliance.detectedCategories)
          /\ ppeItems[detections[j].class].category
                \in Range(compliance.detectedCategories)
    /\ Len(compliance.detectedItems) = 1

(***************************************************************************)
(* C9: detections whose label has no catalog entry change nothing: the     *)
(* report has the detectedCategories, score, missingCategories and         *)
(* detected items of the same list without them.                           *)
(***************************************************************************)
C9_UnknownLabelsIgnored ==
    Analysed =>
        LET known == AnalyzeCompliance(SelectSeq(detections, InCatalog))
        IN  /\ compliance.detectedCategories = known.detectedCategories
            /\ compliance.complianceScore = known.complianceScore
            /\ compliance.missingCategories = known.missingCategories
            /\ compliance.detectedItems = known.detectedItems

(***************************************************************************)
(* C10: getPPERequirements returns, for each of the five defined names,    *)
(* that profile's non-empty list of the profile table, and for every other *)
(* name and for an absent name the list of 'general'.                      *)
(***************************************************************************)
C10_UnknownProfileIsGeneral ==
    pc = "resolved" =>
        /\ resolved.type = "array"
        /\ resolved.items = ProfileTable(argument)
        /\ resolved.items # <<>>
        /\ argument \notin ValidEnvironments => resolved = GetPPERequirements("general")

(***************************************************************************)
(* C11: a detection list that holds a malformed detection (label missing,  *)
(* confidence missing, or confidence outside [0, 1]) is rejected and no    *)
(* report is produced for it; a detection with a catalog label and a       *)
(* confidence above 1 never contributes a category.                        *)
(***************************************************************************)
MalformedDetection(d) ==
    \/ "class" \notin DOMAIN d
    \/ "confidence" \notin DOMAIN d
    \/ d.confidence \notin 0..100

C11_MalformedRejected ==
    /\ (\E i \in 1..Len(detections) : MalformedDetection(detections[i])) => ~Analysed
    /\ Analysed =>
          \A k \in 1..Len(compliance.detectedItems) :
              compliance.detectedItems[k].confidence \in 0..100

(***************************************************************************)
(* C12: generateRecommendations gives the recommendations in a fixed       *)
(* order: the error/high no-person message (only without a person), one    *)
(* warning/high per entry of missingCategories in the report's order, the  *)
(* success/low message (only if compliant), and last one info/medium       *)
(* reminder; the last element is always that info and no other is an info. *)
(***************************************************************************)
C12_RecommendationOrder ==
    pc = "reported" =>
        LET n == Len(compliance.missingCategories)
            off == IF compliance.personDetected THEN 0 ELSE 1
            last == Len(recommendations)
        IN  /\ last = off + n + (IF compliance.isCompliant THEN 1 ELSE 0) + 1
            /\ ~compliance.personDetected =>
                  /\ recommendations[1].type = "error"
                  /\ recommendations[1].priority = "high"
            /\ \A i \in 1..n :
                  /\ recommendations[off + i].type = "warning"
                  /\ recommendations[off + i].priority = "high"
                  /\ recommendations[off + i].message =
                        "Missing " \o ReplaceUnderscore(compliance.missingCategories[i])
                            \o ": " \o categoryMessages[compliance.missingCategories[i]]
            /\ compliance.isCompliant =>
                  /\ recommendations[off + n + 1].type = "success"
                  /\ recommendations[off + n + 1].priority = "low"
            /\ recommendations[last].type = "info"
            /\ recommendations[last].priority = "medium"
            /\ \A i \in 1..(last - 1) : recommendations[i].type # "info"

\* No person and several categories missing: error, warnings in order, info.
C12_Witness ==
    /\ pc = "reported"
    /\ ~compliance.personDetected
    /\ Len(compliance.missingCategories) >= 2
    /\ Len(recommendations) = Len(compliance.missingCategories) + 2

(***************************************************************************)
(* C13: the recommendations hold a success entry exactly when the report   *)
(* is compliant, at most one, and never together with a warning or with    *)
(* the no-person error.                                                    *)
(***************************************************************************)
C13_SuccessOnlyWhenCompliant ==
    pc = "reported" =>
        LET successes == {i \in 1..Len(recommendations) : recommendations[i].type = "success"}
        IN  /\ (successes # {}) <=> compliance.isCompliant
            /\ Cardinality(successes) <= 1
            /\ successes # {} =>
                  \A i \in 1..Len(recommendations) :
                      recommendations[i].type \notin {"warning", "error"}

\* A compliant report with its one success entry.
C13_Witness ==
    /\ pc = "reported"
    /\ compliance.isCompliant
    /\ \E i \in 1..Len(recommendations) : recommendations[i].type = "success"

(***************************************************************************)
(* C14: normalization is idempotent: the detected items of a report, fed   *)
(* back as detections with the same label, confidence and bounding box,    *)
(* give the same detected items in the same order.                         *)
(***************************************************************************)
AsDetections(items) ==
    [i \in 1..Len(items) |->
        [class |-> items[i].item,
         confidence |-> items[i].confidence,
         bbox |-> items[i].bbox]]

C14_NormalizationIdempotent ==
    Analysed =>
        AnalyzeCompliance(AsDetections(compliance.detectedItems)).detectedItems
            = compliance.detectedItems

\* A report that kept some detections and dropped others.
C14_Witness ==
    /\ Analysed
    /\ Len(compliance.detectedItems) >= 1
    /\ Len(compliance.detectedItems) < Len(detections)

(***************************************************************************)
(* C16: missingCategories is exactly the required categories that are not  *)
(* in detectedCategories, each once, in the order of the required list;    *)
(* detectedCategories and missingCategories together cover every required  *)
(* category and share none.                                                *)
(***************************************************************************)
PositionIn(list, x) == CHOOSE i \in 1..Len(list) : list[i] = x

C16_MissingIsRequiredMinusDetected ==
    Analysed =>
        LET missing == compliance.missingCategories
            found == Range(compliance.detectedCategories)
        IN  /\ Range(missing) = Range(requiredCategories) \ found
            /\ Cardinality(Range(missing)) = Len(missing)
            /\ \A i, j \in 1..Len(missing) :
                  i < j => PositionIn(requiredCategories, missing[i])
                              < PositionIn(requiredCategories, missing[j])
            /\ Range(requiredCategories) \subseteq found \cup Range(missing)
            /\ found \cap Range(missing) = {}

\* Some required categories detected, several missing.
C16_Witness ==
    /\ Analysed
    /\ Len(compliance.missingCategories) >= 2
    /\ Range(compliance.detectedCategories) \cap Range(requiredCategories) # {}

(***************************************************************************)
(* C17: detectedCategories holds protection categories only: 'person' is   *)
(* never a member, so totalDetected never exceeds totalRequired.           *)
(***************************************************************************)
C17_PersonIsNoCategory ==
    Analysed =>
        /\ "person" \notin Range(compliance.detectedCategories)
        /\ compliance.totalDetected <= compliance.totalRequired

(***************************************************************************)
(* C18: the threshold applies to the person detection too: personDetected  *)
(* is true only if a 'person' detection is among the detected items, and a *)
(* scene whose person detections all lie at or below the threshold is      *)
(* never compliant.                                                        *)
(***************************************************************************)
C18_PersonNeedsThreshold ==
    Analysed =>
        /\ "person" \notin CategoriesAbove(detections) => ~compliance.isCompliant
        /\ compliance.personDetected =>
              \E k \in 1..Len(compliance.detectedItems) :
                  compliance.detectedItems[k].item = "person"

(***************************************************************************)
(* C15: analyses may run concurrently on the one shared instance: under    *)
(* every interleaving each analysis returns the report and the             *)
(* recommendations its own detection list determines, and no analysis      *)
(* modifies the shared catalog or the required-category list.              *)
(***************************************************************************)
C15_ConcurrentAnalysesIndependent ==
    /\ service.ppeItems = ppeItems
    /\ service.requiredCategories = requiredCategories
    /\ \A r \in Requests :
          calls[r].pc = "done" =>
              /\ calls[r].compliance = AnalyzeCompliance(calls[r].detections)
              /\ calls[r].recommendations =
                    GenerateRecommendations(AnalyzeCompliance(calls[r].detections))

\* One analysis has returned while another, begun before that and given a
\* different scene, is still in flight; and two finished with different reports.
C15_Witness ==
    \E r1, r2 \in Requests :
        /\ r1 # r2
        /\ calls[r1].pc = "done"
        /\ calls[r2].pc \in {"detection", "done"}
        /\ calls[r2].detections # calls[r1].detections
        /\ ~calls[r1].compliance.isCompliant
        /\ Len(calls[r2].detections) = Len(mockDetections)

(***************************************************************************)
(* C19: a POST /api/upload request that stored a file and was answered     *)
(* with an error (400 or 500) has removed that file from the uploads       *)
(* folder before responding; only a success leaves its file behind.        *)
(***************************************************************************)
C19_ErrorResponseRemovesFile ==
    \A r \in UploadRequests :
        ( /\ uploadRequests[r].pc = "responded"
          /\ uploadRequests[r].status # 200
          /\ uploadRequests[r].file # NoFile )
            => uploadRequests[r].file \notin uploadPath

(***************************************************************************)
(* C20: whenever a POST /api/upload request sends its response, the        *)
(* uploads folder holds no more files than cleanupOldFiles keeps, every    *)
(* file kept is newer than every other request's file deleted on the way   *)
(* to the response, and a request answered with success has not deleted    *)
(* its own file.                                                           *)
(***************************************************************************)
C20_CleanupKeepsNewest ==
    [][ \A r \in UploadRequests :
          ( /\ uploadRequests[r].pc # "responded"
            /\ uploadRequests'[r].pc = "responded" )
              => /\ Cardinality(uploadPath') <= KeepLimit
                 /\ \A kept \in uploadPath' :
                       \A deleted \in (uploadPath \ uploadPath') \ {uploadRequests'[r].file} :
                           kept > deleted
                 /\ uploadRequests'[r].status = 200 =>
                       uploadRequests'[r].file \in uploadPath' ]_vars

====
